---- MODULE Spec2Model ----
(***************************************************************************)
(* A model of NewDriver (workflow/artifacts/artifacts.go): the artifact    *)
(* driver factory.  One behaviour is one call of NewDriver: the initial    *)
(* state holds the descriptor `art`, every step up to pc = "done" is one   *)
(* branch decision, one ri.GetSecret call or one return statement.         *)
(***************************************************************************)
EXTENDS Naturals, Sequences, FiniteSets

VARIABLES
    art,    \* the *wfv1.Artifact passed to NewDriver
    pc,     \* position inside NewDriver
    local,  \* the credential locals / driver fields assembled so far
    calls,  \* the ri.GetSecret calls made so far, in order, with their results
    ret     \* what NewDriver returned: driver, err and the returning line

vars == <<art, pc, local, calls, ret>>

\* At most this many backend sub-configs of one descriptor are populated.
MaxPopulated == 2

----------------------------------------------------------------------------
\* Values

\* A nil pointer (sub-config, *SecretKeySelector, *bool, driver).
Nil == [nil |-> TRUE]

\* The nil error.
NilErr == "<nil>"

ErrUnsupportedDriver == "unsupported artifact driver"

\* The errors ri.GetSecret may return.
ResolverErrs == {"secret not found", "store unavailable"}

\* The plaintexts ri.GetSecret may return.
Plaintexts == {"PRIVATEKEY", "plain2"}

\* The error of the delegated HDFS constructor that is not a resolver error.
HDFSErr == "hdfs: invalid artifact"

\* apiv1.SecretKeySelector values: (name, key).
Sel(n, k) == [name |-> n, key |-> k]

EmptySel == Sel("", "")

Selectors == {EmptySel, Sel("k", "id_rsa"), Sel("creds", "secret")}

\* *apiv1.SecretKeySelector values.
SelectorPtrs == {Nil, EmptySel, Sel("k", "id_rsa")}

\* *bool values.
BoolPtrs == {Nil, [val |-> TRUE], [val |-> FALSE]}

\* Every outcome of one ri.GetSecret call: (plaintext, nil) or ("", err).
GetSecretResults ==
    {[val |-> p, err |-> NilErr] : p \in Plaintexts}
        \cup {[val |-> "", err |-> e] : e \in ResolverErrs}

----------------------------------------------------------------------------
\* The descriptor

S3Artifacts ==
    [AccessKeySecret : Selectors, SecretKeySecret : Selectors,
     Insecure : BoolPtrs,
     Plain : {[Endpoint |-> "", Region |-> "", RoleARN |-> "", UseSDKCreds |-> FALSE],
              [Endpoint |-> "store.example", Region |-> "us-east-1",
               RoleARN |-> "arn:role", UseSDKCreds |-> TRUE]}]

HTTPArtifacts == {[URL |-> "http://example"]}

GitArtifacts ==
    [UsernameSecret : SelectorPtrs, PasswordSecret : SelectorPtrs,
     SSHPrivateKeySecret : SelectorPtrs, InsecureIgnoreHostKey : BOOLEAN]

ArtifactoryArtifacts ==
    [UsernameSecret : Selectors, PasswordSecret : Selectors]

HDFSArtifacts ==
    [KrbKeytabSecret : {Nil, Sel("k", "id_rsa")}, Valid : BOOLEAN]

RawArtifacts == {[Data |-> "inline"]}

OSSArtifacts ==
    [AccessKeySecret : Selectors, SecretKeySecret : Selectors,
     Endpoint : {"", "oss.example"}]

GCSArtifacts == [ServiceAccountKeySecret : Selectors]

\* The backends in the order NewDriver tests them.
Backends == <<"S3", "HTTP", "Git", "Artifactory", "HDFS", "Raw", "OSS", "GCS">>

BackendNames == {Backends[i] : i \in 1..Len(Backends)}

Populated(a) == {b \in BackendNames : a[b] # Nil}

\* The sub-configs backend b may hold when the set P of backends is populated.
SubConfigs(b, P) ==
    IF b \notin P THEN {Nil}
    ELSE CASE b = "S3" -> S3Artifacts
           [] b = "HTTP" -> HTTPArtifacts
           [] b = "Git" -> GitArtifacts
           [] b = "Artifactory" -> ArtifactoryArtifacts
           [] b = "HDFS" -> HDFSArtifacts
           [] b = "Raw" -> RawArtifacts
           [] b = "OSS" -> OSSArtifacts
           [] b = "GCS" -> GCSArtifacts

\* wfv1.Artifact values: each sub-config nil or populated, independently.
Artifacts ==
    UNION {[S3 : SubConfigs("S3", P), HTTP : SubConfigs("HTTP", P),
            Git : SubConfigs("Git", P),
            Artifactory : SubConfigs("Artifactory", P),
            HDFS : SubConfigs("HDFS", P), Raw : SubConfigs("Raw", P),
            OSS : SubConfigs("OSS", P), GCS : SubConfigs("GCS", P)] :
        P \in {Q \in SUBSET BackendNames : Cardinality(Q) <= MaxPopulated}}

----------------------------------------------------------------------------
\* The drivers NewDriver builds

S3ArtifactDriver(s3, l) ==
    [kind |-> "S3", Endpoint |-> s3.Plain.Endpoint,
     AccessKey |-> l.accessKey, SecretKey |-> l.secretKey,
     Secure |-> (s3.Insecure = Nil \/ ~s3.Insecure.val),
     Region |-> s3.Plain.Region, RoleARN |-> s3.Plain.RoleARN,
     UseSDKCreds |-> s3.Plain.UseSDKCreds]

HTTPArtifactDriver == [kind |-> "HTTP"]

GitArtifactDriver(g, l) ==
    [kind |-> "Git", InsecureIgnoreHostKey |-> g.InsecureIgnoreHostKey,
     Username |-> l.username, Password |-> l.password,
     SSHPrivateKey |-> l.sshPrivateKey]

ArtifactoryArtifactDriver(l) ==
    [kind |-> "Artifactory", Username |-> l.username, Password |-> l.password]

RawArtifactDriver == [kind |-> "Raw"]

OSSArtifactDriver(o, l) ==
    [kind |-> "OSS", Endpoint |-> o.Endpoint,
     AccessKey |-> l.accessKey, SecretKey |-> l.secretKey]

\* GCSArtifactDriver with the resolved key never attached.
GCSArtifactDriver_NoKey(l) == [kind |-> "GCS", ServiceAccountKey |-> ""]

GCSArtifactDriver(l) ==
    [kind |-> "GCS", ServiceAccountKey |-> l.serviceAccountKey]

\* The zero values of the credential locals and driver fields.
ZeroLocal ==
    [accessKey |-> "", secretKey |-> "", username |-> "", password |-> "",
     sshPrivateKey |-> "", serviceAccountKey |-> ""]

----------------------------------------------------------------------------
\* Branch conditions

\* S3NeedsKeys with the gate reading either reference's name.
S3NeedsKeys_EitherName(s3) ==
    s3.AccessKeySecret.name # "" \/ s3.SecretKeySecret.name # ""

\* The S3 and OSS key pair is resolved iff the access key's name is set.
S3NeedsKeys(s3) == s3.AccessKeySecret.name # ""

OSSNeedsKeys(o) == o.AccessKeySecret.name # ""

\* GCSNeedsKey with the empty-name gate dropped.
GCSNeedsKey_Always(g) == TRUE

GCSNeedsKey(g) == g.ServiceAccountKeySecret.name # ""

\* The Git credential checks, in source order, and the position after each.
GitUsernameSet(g) == g.UsernameSecret # Nil

GitPasswordSet(g) == g.PasswordSecret # Nil

GitSSHPrivateKeySet(g) == g.SSHPrivateKeySecret # Nil

GitAfterPassword(g) ==
    IF GitSSHPrivateKeySet(g) THEN "Git.sshPrivateKey" ELSE "Git.driver"

\* GitAfterUsername with the password check nested under the username's.
GitAfterUsername_SkipsPassword(g) == GitAfterPassword(g)

GitAfterUsername(g) ==
    IF GitPasswordSet(g) THEN "Git.password" ELSE GitAfterPassword(g)

GitEntry(g) ==
    IF GitUsernameSet(g) THEN "Git.username" ELSE GitAfterUsername(g)

\* ArtifactoryEntry gated by the username reference's name, as S3 and OSS are.
ArtifactoryEntry_Gated(x) ==
    IF x.UsernameSecret.name # "" THEN "Artifactory.username"
    ELSE "Artifactory.driver"

\* The Artifactory branch opens with the username call, unconditionally.
ArtifactoryEntry(x) == "Artifactory.username"

\* Variant with the HTTP test placed before the S3 test.
Variant_HTTPFirst(a) ==
    IF a.HTTP # Nil THEN "HTTP"
    ELSE IF a.S3 # Nil THEN "S3"
    ELSE IF a.Git # Nil THEN "Git"
    ELSE IF a.Artifactory # Nil THEN "Artifactory"
    ELSE IF a.HDFS # Nil THEN "HDFS"
    ELSE IF a.Raw # Nil THEN "Raw"
    ELSE IF a.OSS # Nil THEN "OSS"
    ELSE IF a.GCS # Nil THEN "GCS"
    ELSE "none"

\* Variant with the GCS test missing.
Variant_NoGCS(a) ==
    IF a.S3 # Nil THEN "S3"
    ELSE IF a.HTTP # Nil THEN "HTTP"
    ELSE IF a.Git # Nil THEN "Git"
    ELSE IF a.Artifactory # Nil THEN "Artifactory"
    ELSE IF a.HDFS # Nil THEN "HDFS"
    ELSE IF a.Raw # Nil THEN "Raw"
    ELSE IF a.OSS # Nil THEN "OSS"
    ELSE "none"

\* The first populated sub-config in the order NewDriver tests them.
Variant(a) ==
    IF a.S3 # Nil THEN "S3"
    ELSE IF a.HTTP # Nil THEN "HTTP"
    ELSE IF a.Git # Nil THEN "Git"
    ELSE IF a.Artifactory # Nil THEN "Artifactory"
    ELSE IF a.HDFS # Nil THEN "HDFS"
    ELSE IF a.Raw # Nil THEN "Raw"
    ELSE IF a.OSS # Nil THEN "OSS"
    ELSE IF a.GCS # Nil THEN "GCS"
    ELSE "none"

\* Where control stands once the branch is chosen and its leading
\* conditions are evaluated: at the branch's first resolver call or return.
Entry(a) ==
    CASE Variant(a) = "S3" ->
            IF S3NeedsKeys(a.S3) THEN "S3.accessKey" ELSE "S3.driver"
      [] Variant(a) = "HTTP" -> "HTTP.driver"
      [] Variant(a) = "Git" -> GitEntry(a.Git)
      [] Variant(a) = "Artifactory" -> ArtifactoryEntry(a.Artifactory)
      [] Variant(a) = "HDFS" -> "HDFS.create"
      [] Variant(a) = "Raw" -> "Raw.driver"
      [] Variant(a) = "OSS" ->
            IF OSSNeedsKeys(a.OSS) THEN "OSS.accessKey" ELSE "OSS.driver"
      [] Variant(a) = "GCS" ->
            IF GCSNeedsKey(a.GCS) THEN "GCS.serviceAccountKey" ELSE "GCS.driver"
      [] OTHER -> "unsupported"

----------------------------------------------------------------------------
\* The secret resolver and the delegated constructor

\* The record of one ri.GetSecret(ctx, sel.name, sel.key) call: the
\* descriptor field <<backend, field>> the reference was read from, the
\* arguments, the result.
Call(field, sel, res) ==
    [field |-> field, name |-> sel.name, key |-> sel.key,
     val |-> res.val, err |-> res.err]

\* hdfs.CreateDriver(ctx, ri, art.HDFS): fails on an invalid sub-config,
\* resolves the keytab secret when one is referenced (res is that call's
\* outcome), and returns (driver, nil) or (nil, err).
CreateDriver(h, res) ==
    IF ~h.Valid
    THEN [driver |-> Nil, err |-> HDFSErr, calls |-> <<>>]
    ELSE IF h.KrbKeytabSecret = Nil
    THEN [driver |-> [kind |-> "HDFS", Keytab |-> ""], err |-> NilErr,
          calls |-> <<>>]
    ELSE IF res.err # NilErr
    THEN [driver |-> Nil, err |-> res.err,
          calls |-> <<Call(<<"HDFS", "KrbKeytabSecret">>, h.KrbKeytabSecret, res)>>]
    ELSE [driver |-> [kind |-> "HDFS", Keytab |-> res.val], err |-> NilErr,
          calls |-> <<Call(<<"HDFS", "KrbKeytabSecret">>, h.KrbKeytabSecret, res)>>]

----------------------------------------------------------------------------
\* The steps of NewDriver

Init ==
    /\ art \in Artifacts
    /\ pc = "start"
    /\ local = ZeroLocal
    /\ calls = <<>>
    /\ ret = [driver |-> Nil, err |-> NilErr, line |-> 0]

\* A return statement at the given source line.
Return(driver, err, line) ==
    /\ ret' = [driver |-> driver, err |-> err, line |-> line]
    /\ pc' = "done"

\* Resolve returning the resolver's error wrapped in a new error.
Resolve_WrapsError(field, sel, res, var, next, errLine) ==
    /\ calls' = Append(calls, Call(field, sel, res))
    /\ IF res.err # NilErr
       THEN /\ Return(Nil, "failed to get secret", errLine)
            /\ UNCHANGED local
       ELSE /\ local' = [local EXCEPT ![var] = res.val]
            /\ pc' = next
            /\ UNCHANGED ret
    /\ UNCHANGED art

\* One ri.GetSecret call with outcome res followed by its `if err != nil`:
\* on an error return (nil, err) at errLine, else store the plaintext in
\* the local `var` and go on at `next`.
Resolve(field, sel, res, var, next, errLine) ==
    /\ calls' = Append(calls, Call(field, sel, res))
    /\ IF res.err # NilErr
       THEN /\ Return(Nil, res.err, errLine)
            /\ UNCHANGED local
       ELSE /\ local' = [local EXCEPT ![var] = res.val]
            /\ pc' = next
            /\ UNCHANGED ret
    /\ UNCHANGED art

\* The chain of `if art.X != nil` tests and the conditions that open a branch.
Dispatch ==
    /\ pc = "start"
    /\ pc' = Entry(art)
    /\ UNCHANGED <<art, local, calls, ret>>

S3AccessKey ==
    /\ pc = "S3.accessKey"
    /\ \E res \in GetSecretResults :
          Resolve(<<"S3", "AccessKeySecret">>, art.S3.AccessKeySecret, res,
                  "accessKey", "S3.secretKey", 41)

S3SecretKey ==
    /\ pc = "S3.secretKey"
    /\ \E res \in GetSecretResults :
          Resolve(<<"S3", "SecretKeySecret">>, art.S3.SecretKeySecret, res,
                  "secretKey", "S3.driver", 46)

S3Driver ==
    /\ pc = "S3.driver"
    /\ Return(S3ArtifactDriver(art.S3, local), NilErr, 60)
    /\ UNCHANGED <<art, local, calls>>

HTTPDriver ==
    /\ pc = "HTTP.driver"
    /\ Return(HTTPArtifactDriver, NilErr, 63)
    /\ UNCHANGED <<art, local, calls>>

GitUsername ==
    /\ pc = "Git.username"
    /\ \E res \in GetSecretResults :
          Resolve(<<"Git", "UsernameSecret">>, art.Git.UsernameSecret, res,
                  "username", GitAfterUsername(art.Git), 72)

GitPassword ==
    /\ pc = "Git.password"
    /\ \E res \in GetSecretResults :
          Resolve(<<"Git", "PasswordSecret">>, art.Git.PasswordSecret, res,
                  "password", GitAfterPassword(art.Git), 79)

GitSSHPrivateKey ==
    /\ pc = "Git.sshPrivateKey"
    /\ \E res \in GetSecretResults :
          Resolve(<<"Git", "SSHPrivateKeySecret">>, art.Git.SSHPrivateKeySecret, res,
                  "sshPrivateKey", "Git.driver", 86)

GitDriver ==
    /\ pc = "Git.driver"
    /\ Return(GitArtifactDriver(art.Git, local), NilErr, 91)
    /\ UNCHANGED <<art, local, calls>>

ArtifactoryUsername ==
    /\ pc = "Artifactory.username"
    /\ \E res \in GetSecretResults :
          Resolve(<<"Artifactory", "UsernameSecret">>, art.Artifactory.UsernameSecret,
                  res, "username", "Artifactory.password", 96)

ArtifactoryPassword ==
    /\ pc = "Artifactory.password"
    /\ \E res \in GetSecretResults :
          Resolve(<<"Artifactory", "PasswordSecret">>, art.Artifactory.PasswordSecret,
                  res, "password", "Artifactory.driver", 100)

ArtifactoryDriver ==
    /\ pc = "Artifactory.driver"
    /\ Return(ArtifactoryArtifactDriver(local), NilErr, 106)
    /\ UNCHANGED <<art, local, calls>>

\* return hdfs.CreateDriver(ctx, ri, art.HDFS)
HDFSCreate ==
    /\ pc = "HDFS.create"
    /\ \E res \in GetSecretResults :
          LET r == CreateDriver(art.HDFS, res)
          IN  /\ calls' = calls \o r.calls
              /\ Return(r.driver, r.err, 110)
    /\ UNCHANGED <<art, local>>

RawDriver ==
    /\ pc = "Raw.driver"
    /\ Return(RawArtifactDriver, NilErr, 113)
    /\ UNCHANGED <<art, local, calls>>

\* OSSAccessKey without its `if err != nil`.
OSSAccessKey_IgnoresError ==
    /\ pc = "OSS.accessKey"
    /\ \E res \in GetSecretResults :
          /\ calls' = Append(calls, Call(<<"OSS", "AccessKeySecret">>,
                                         art.OSS.AccessKeySecret, res))
          /\ local' = [local EXCEPT !.accessKey = res.val]
          /\ pc' = "OSS.secretKey"
          /\ UNCHANGED <<art, ret>>

OSSAccessKey ==
    /\ pc = "OSS.accessKey"
    /\ \E res \in GetSecretResults :
          Resolve(<<"OSS", "AccessKeySecret">>, art.OSS.AccessKeySecret, res,
                  "accessKey", "OSS.secretKey", 123)

OSSSecretKey ==
    /\ pc = "OSS.secretKey"
    /\ \E res \in GetSecretResults :
          Resolve(<<"OSS", "SecretKeySecret">>, art.OSS.SecretKeySecret, res,
                  "secretKey", "OSS.driver", 128)

OSSDriver ==
    /\ pc = "OSS.driver"
    /\ Return(OSSArtifactDriver(art.OSS, local), NilErr, 138)
    /\ UNCHANGED <<art, local, calls>>

GCSServiceAccountKey ==
    /\ pc = "GCS.serviceAccountKey"
    /\ \E res \in GetSecretResults :
          Resolve(<<"GCS", "ServiceAccountKeySecret">>,
                  art.GCS.ServiceAccountKeySecret, res,
                  "serviceAccountKey", "GCS.driver", 146)

GCSDriver ==
    /\ pc = "GCS.driver"
    /\ Return(GCSArtifactDriver(local), NilErr, 152)
    /\ UNCHANGED <<art, local, calls>>

\* Unsupported returning a nil error with the nil driver.
Unsupported_NilNil ==
    /\ pc = "unsupported"
    /\ Return(Nil, NilErr, 155)
    /\ UNCHANGED <<art, local, calls>>

Unsupported ==
    /\ pc = "unsupported"
    /\ Return(Nil, ErrUnsupportedDriver, 155)
    /\ UNCHANGED <<art, local, calls>>

Next ==
    \/ Dispatch
    \/ S3AccessKey \/ S3SecretKey \/ S3Driver
    \/ HTTPDriver
    \/ GitUsername \/ GitPassword \/ GitSSHPrivateKey \/ GitDriver
    \/ ArtifactoryUsername \/ ArtifactoryPassword \/ ArtifactoryDriver
    \/ HDFSCreate
    \/ RawDriver
    \/ OSSAccessKey \/ OSSSecretKey \/ OSSDriver
    \/ GCSServiceAccountKey \/ GCSDriver
    \/ Unsupported

Spec == Init /\ [][Next]_vars

\* NewDriver has returned.
Done == pc = "done"

----------------------------------------------------------------------------
\* Vocabulary of the properties

\* b is populated and every backend tested before it is nil.
ActsOn(b) ==
    /\ art[b] # Nil
    /\ \A i \in 1..Len(Backends) :
          Backends[i] = b => \A j \in 1..(i - 1) : art[Backends[j]] = Nil

\* b is the only populated backend.
Only(b) == Populated(art) = {b}

Succeeded == Done /\ ret.err = NilErr /\ ret.driver # Nil

Failed == Done /\ ret.err # NilErr /\ ret.driver = Nil

\* Call i was made for the reference in field f of backend b, with that
\* reference's name and key as arguments.
IsCallFor(i, b, f) ==
    /\ calls[i].field = <<b, f>>
    /\ calls[i].name = art[b][f].name
    /\ calls[i].key = art[b][f].key

AllCallsSucceeded == \A i \in 1..Len(calls) : calls[i].err = NilErr

\* The call that failed, if any, is the last one and NewDriver returned
\* (nil, err) with exactly its error.
AbortedBy(i) ==
    /\ i = Len(calls)
    /\ Done
    /\ ret.driver = Nil
    /\ ret.err = calls[i].err

----------------------------------------------------------------------------
\* C1: the variants are tested in the order S3, HTTP, Git, Artifactory, HDFS,
\* Raw, OSS, GCS and the first populated one is acted upon: whenever one or
\* more variants are populated, every resolver call is made for a reference
\* of the highest-priority populated variant (with that reference's name and
\* key), so no reference of another populated variant reaches the resolver,
\* and a returned driver is of that variant's kind.
C1_FirstPopulatedWins ==
    \A b \in BackendNames :
        ActsOn(b) =>
            /\ \A i \in 1..Len(calls) :
                  /\ calls[i].field[1] = b
                  /\ art[b][calls[i].field[2]] # Nil
                  /\ IsCallFor(i, b, calls[i].field[2])
            /\ Done /\ ret.driver # Nil => ret.driver.kind = b

\* Git is acted upon although GCS, with a named secret, is populated too.
C1_Witness ==
    /\ Succeeded
    /\ art.Git # Nil /\ art.GCS # Nil
    /\ art.GCS.ServiceAccountKeySecret.name # ""
    /\ Len(calls) = 3
    /\ ret.driver.kind = "Git"

\* C2: with no variant populated NewDriver returns (nil, ErrUnsupportedDriver)
\* and never calls the resolver; and ErrUnsupportedDriver is returned only
\* then, by the final return statement.
C2_UnsupportedIffNonePopulated ==
    /\ Populated(art) = {} =>
          /\ calls = <<>>
          /\ ENABLED Next \/ Done
          /\ Done => ret.driver = Nil /\ ret.err = ErrUnsupportedDriver
    /\ ret.err = ErrUnsupportedDriver =>
          Populated(art) = {} /\ ret.line = 155

C2_Witness ==
    Done /\ Populated(art) = {} /\ ret.err = ErrUnsupportedDriver

\* C10: every NewDriver call returns, and returns either a driver with a nil
\* error or a nil driver with a non-nil error, never (nil, nil) and never a
\* driver together with an error.
C10_DriverXorError ==
    /\ ~Done => ENABLED Next /\ ret.driver = Nil /\ ret.err = NilErr
    /\ Done => (ret.driver = Nil) # (ret.err = NilErr)

\* A call aborted by the second S3 resolution: locals partly filled, no driver.
C10_Witness ==
    /\ Failed
    /\ art.S3 # Nil
    /\ Len(calls) = 2
    /\ local.accessKey # ""

----------------------------------------------------------------------------
\* The descriptor names no secret: every reference name is empty and every
\* optional reference is absent.
NoSecretReferences ==
    /\ art.S3 # Nil =>
          art.S3.AccessKeySecret = EmptySel /\ art.S3.SecretKeySecret = EmptySel
    /\ art.Git # Nil =>
          /\ art.Git.UsernameSecret = Nil
          /\ art.Git.PasswordSecret = Nil
          /\ art.Git.SSHPrivateKeySecret = Nil
    /\ art.Artifactory # Nil =>
          /\ art.Artifactory.UsernameSecret = EmptySel
          /\ art.Artifactory.PasswordSecret = EmptySel
    /\ art.HDFS # Nil => art.HDFS.KrbKeytabSecret = Nil
    /\ art.OSS # Nil =>
          art.OSS.AccessKeySecret = EmptySel /\ art.OSS.SecretKeySecret = EmptySel
    /\ art.GCS # Nil => art.GCS.ServiceAccountKeySecret = EmptySel

\* Every credential field the driver d has is empty.
EmptyCredentials(d) ==
    \A f \in DOMAIN d :
        f \in {"AccessKey", "SecretKey", "Username", "Password",
               "SSHPrivateKey", "ServiceAccountKey", "Keytab"} => d[f] = ""

\* With only b populated and no secret named, the resolver is never called
\* and the call returns a b driver with empty credential fields.
PlainConstruction(b) ==
    Only(b) /\ NoSecretReferences =>
        /\ calls = <<>>
        /\ ENABLED Next \/ Done
        /\ Done => /\ Succeeded
                   /\ ret.driver.kind = b
                   /\ EmptyCredentials(ret.driver)

KeyPairGatedByAccessKeyName(b) ==
    ActsOn(b) =>
        IF art[b].AccessKeySecret.name = ""
        THEN /\ calls = <<>>
             /\ ENABLED Next \/ Done
             /\ Done => /\ Succeeded
                        /\ ret.driver.kind = b
                        /\ ret.driver.AccessKey = ""
                        /\ ret.driver.SecretKey = ""
        ELSE \A i \in 1..Len(calls) :
                calls[i].field = <<b, "SecretKeySecret">> /\ calls[i].err # NilErr
                    => AbortedBy(i)

\* C4: for S3 and OSS the key pair is gated by the access-key reference's
\* name alone: if it is empty the resolver is never called and AccessKey and
\* SecretKey are both empty, whatever the secret-key reference holds; if it is
\* set and the secret-key resolution fails, NewDriver returns that failure
\* and no driver.
C4_KeyPairOptionalAsUnit ==
    KeyPairGatedByAccessKeyName("S3") /\ KeyPairGatedByAccessKeyName("OSS")

\* An S3 driver without keys although the secret-key reference is named.
C4_Witness ==
    /\ Succeeded
    /\ art.S3 # Nil
    /\ art.S3.AccessKeySecret.name = ""
    /\ art.S3.SecretKeySecret.name # ""
    /\ ret.driver.SecretKey = ""

\* An OSS call aborted by the failure of the secret-key resolution.
C4_WitnessSecretKeyFails ==
    /\ Failed
    /\ ActsOn("OSS")
    /\ Len(calls) = 2
    /\ calls[2].field = <<"OSS", "SecretKeySecret">>
    /\ ret.err = calls[2].err

\* The order of the two resolutions of backend b.
AccessKeyBeforeSecretKey(b) ==
    ActsOn(b) /\ art[b].AccessKeySecret.name # "" =>
        /\ Len(calls) <= 2
        /\ Len(calls) >= 1 => IsCallFor(1, b, "AccessKeySecret")
        /\ Len(calls) = 2 =>
              calls[1].err = NilErr /\ IsCallFor(2, b, "SecretKeySecret")
        /\ Len(calls) >= 1 /\ calls[1].err # NilErr => Done
        /\ Succeeded => Len(calls) = 2

\* C5: for S3 and OSS with a named access key, the access key is resolved
\* first; the secret key is requested only after that call succeeded; a
\* successful construction made exactly two calls, the second with the
\* secret-key reference's name and key even when that name is empty.
C5_AccessKeyThenSecretKey ==
    AccessKeyBeforeSecretKey("S3") /\ AccessKeyBeforeSecretKey("OSS")

\* An OSS driver built after two calls, the second for an empty reference.
C5_Witness ==
    /\ Succeeded
    /\ ActsOn("OSS")
    /\ art.OSS.AccessKeySecret.name # ""
    /\ art.OSS.SecretKeySecret = EmptySel
    /\ Len(calls) = 2
    /\ calls[2].name = ""

\* C6: in the factory's own branches a failed resolver call is the last call
\* made, NewDriver returns a nil driver with exactly that call's error, and
\* no descriptor reference is resolved twice.
C6_FailureAbortsVerbatim ==
    \A i \in 1..Len(calls) :
        calls[i].field[1] # "HDFS" =>
            /\ calls[i].err # NilErr => AbortedBy(i)
            /\ \A j \in 1..Len(calls) :
                  calls[j].field = calls[i].field => j = i

\* A Git call aborted by its third resolution.
C6_Witness ==
    /\ Failed
    /\ art.S3 = Nil /\ art.HTTP = Nil /\ art.Git # Nil
    /\ Len(calls) = 3
    /\ calls[3].err \in ResolverErrs
    /\ ret.err = calls[3].err

\* The Git references present in g, in the order username, password, SSH key.
GitPresent(g) ==
    SelectSeq(<<"UsernameSecret", "PasswordSecret", "SSHPrivateKeySecret">>,
              LAMBDA f : g[f] # Nil)

\* The driver field filled from each Git reference.
GitField(f) ==
    CASE f = "UsernameSecret" -> "Username"
      [] f = "PasswordSecret" -> "Password"
      [] f = "SSHPrivateKeySecret" -> "SSHPrivateKey"

\* C7: for a Git descriptor the calls made are, in order, those for the
\* present references among username, password, SSH key, one call each; a
\* successful construction called the resolver for every present reference
\* and returns a Git driver whose field holds the resolved plaintext for a
\* present reference and is empty for an absent one.
C7_GitCredentialsIndependent ==
    ActsOn("Git") =>
        LET want == GitPresent(art.Git)
        IN  /\ Len(calls) <= Len(want)
            /\ \A i \in 1..Len(calls) : IsCallFor(i, "Git", want[i])
            /\ Done /\ AllCallsSucceeded =>
                  /\ Succeeded
                  /\ Len(calls) = Len(want)
                  /\ ret.driver.kind = "Git"
                  /\ ret.driver.InsecureIgnoreHostKey
                        = art.Git.InsecureIgnoreHostKey
                  /\ \A i \in 1..Len(want) :
                        ret.driver[GitField(want[i])] = calls[i].val
                  /\ \A f \in {"UsernameSecret", "PasswordSecret",
                              "SSHPrivateKeySecret"} :
                        art.Git[f] = Nil => ret.driver[GitField(f)] = ""

\* A Git driver with password and SSH key resolved and no username.
C7_Witness ==
    /\ Succeeded
    /\ ActsOn("Git")
    /\ art.Git.UsernameSecret = Nil
    /\ art.Git.PasswordSecret # Nil
    /\ art.Git.SSHPrivateKeySecret # Nil
    /\ Len(calls) = 2
    /\ ret.driver.Username = ""
    /\ ret.driver.Password # ret.driver.SSHPrivateKey

\* The Git scenario of the specification: only the SSH key is referenced.
C7_WitnessOnlySSHKey ==
    /\ Succeeded
    /\ Only("Git")
    /\ art.Git.UsernameSecret = Nil /\ art.Git.PasswordSecret = Nil
    /\ art.Git.SSHPrivateKeySecret = Sel("k", "id_rsa")
    /\ ret.driver.SSHPrivateKey = "PRIVATEKEY"
    /\ ret.driver.Username = "" /\ ret.driver.Password = ""

\* C8: for an Artifactory descriptor the username reference is always passed
\* to the resolver, empty or not, and after its success the password
\* reference; a driver is returned only after both calls succeeded and holds
\* their plaintexts; a failure of either aborts with that error.
C8_ArtifactoryAlwaysResolves ==
    ActsOn("Artifactory") =>
        /\ Len(calls) <= 2
        /\ Len(calls) >= 1 => IsCallFor(1, "Artifactory", "UsernameSecret")
        /\ Len(calls) = 2 =>
              /\ calls[1].err = NilErr
              /\ IsCallFor(2, "Artifactory", "PasswordSecret")
        /\ \A i \in 1..Len(calls) : calls[i].err # NilErr => AbortedBy(i)
        /\ Done => Len(calls) >= 1
        /\ Done /\ calls[1].err = NilErr => Len(calls) = 2
        /\ Done /\ ret.driver # Nil =>
              /\ Len(calls) = 2
              /\ calls[1].err = NilErr /\ calls[2].err = NilErr
              /\ ret.err = NilErr
              /\ ret.driver.kind = "Artifactory"
              /\ ret.driver.Username = calls[1].val
              /\ ret.driver.Password = calls[2].val

\* An Artifactory driver built from two empty references.
C8_Witness ==
    /\ Succeeded
    /\ ActsOn("Artifactory")
    /\ art.Artifactory.UsernameSecret = EmptySel
    /\ art.Artifactory.PasswordSecret = EmptySel
    /\ Len(calls) = 2
    /\ calls[1].name = "" /\ calls[2].name = ""

\* C9: for a GCS descriptor, an empty service-account-key name means no
\* resolver call and an empty ServiceAccountKey; otherwise the resolver is
\* called exactly once, with that reference's name and key, the driver's
\* ServiceAccountKey is the plaintext on success, and on failure no driver
\* is returned.
C9_GCSKeyOptional ==
    ActsOn("GCS") =>
        IF art.GCS.ServiceAccountKeySecret.name = ""
        THEN /\ calls = <<>>
             /\ Done => /\ Succeeded
                        /\ ret.driver.kind = "GCS"
                        /\ ret.driver.ServiceAccountKey = ""
        ELSE /\ Len(calls) <= 1
             /\ Done =>
                   /\ Len(calls) = 1
                   /\ IsCallFor(1, "GCS", "ServiceAccountKeySecret")
                   /\ IF calls[1].err = NilErr
                      THEN /\ Succeeded
                           /\ ret.driver.kind = "GCS"
                           /\ ret.driver.ServiceAccountKey = calls[1].val
                      ELSE AbortedBy(1)

\* A GCS driver carrying the resolved service-account key.
C9_Witness ==
    /\ Succeeded
    /\ ActsOn("GCS")
    /\ art.GCS.ServiceAccountKeySecret.name # ""
    /\ Len(calls) = 1
    /\ ret.driver.ServiceAccountKey \in Plaintexts

====
